---- MODULE Spec2Model ----
(***************************************************************************)
(* A model of go-mfs File (file.go): one File shared by several threads.   *)
(* The File owns the current node (guarded by nodelk) and the descriptor   *)
(* lock desclock, a sync.RWMutex that Open takes and that the descriptor   *)
(* keeps until its Close.  The descriptor's own methods (Write, Flush,     *)
(* Close) are not part of file.go; they follow the written design of the   *)
(* FileDescriptor.                                                          *)
(***************************************************************************)
EXTENDS Integers, Sequences, FiniteSets, TLC

\* ---------------------------------------------------------------- bounds
\* threads of the locking specification
NumThreads == 2
\* longest file content
MaxLen == 1
\* shared locks a failed Open may leave behind at one time
MaxLeak == 1

Threads == 1..NumThreads
\* the threads that act in the specification with file content
Workers == {1, 2}
Bytes == {"a"}

\* ------------------------------------------------------------- constants
OpenReadOnly == 0
OpenWriteOnly == 1
OpenReadWrite == 2
\* a mode value outside the three defined ones
BadMode == 3

Modes == {OpenReadOnly, OpenWriteOnly, OpenReadWrite, BadMode}

NoThread == 0

\* ----------------------------------------------------------------- nodes
\* An ipld.Node: a *dag.ProtoNode whose payload decodes to an FSNode of some
\* type (or does not decode: "malformed"), a *dag.RawNode, or another kind.
ProtoNode(ftype, data) == [kind |-> "proto", ftype |-> ftype, data |-> data]
RawNode(data) == [kind |-> "raw", ftype |-> "none", data |-> data]
OtherNode == [kind |-> "other", ftype |-> "none", data |-> <<>>]
NoNode == [kind |-> "nil", ftype |-> "none", data |-> <<>>]

\* The nodes a File may be constructed on (NewFile takes any ipld.Node).
InitNodes ==
    {ProtoNode(ft, <<>>) : ft \in {"file", "raw", "symlink", "directory", "malformed"}}
        \cup {RawNode(<<>>), OtherNode}

\* The nodes of the specification with file content: one of each outcome of
\* Open's type switch.
ContentNodes == InitNodes \ {ProtoNode("raw", <<>>), ProtoNode("directory", <<>>)}

\* The byte strings a single Write may carry.
WriteData == UNION {[1..n -> Bytes] : n \in 1..MaxLen}

\* ft.FSNodeFromBytes: fails on a payload that does not decode.
FSNodeFromBytesFails(n) == n.ftype = "malformed"

\* (the switch without its symlink case)
ValidateNodeNoSymlinkCase(n) ==
    IF n.kind = "proto"
    THEN IF FSNodeFromBytesFails(n) THEN "ErrDecode"
         ELSE IF n.ftype \in {"file", "raw"} THEN "nil"
         ELSE "ErrFsnodeType"
    ELSE "nil"

\* The type switch of Open: the error it returns, or "nil" to go on.
ValidateNode(n) ==
    IF n.kind = "proto"
    THEN IF FSNodeFromBytesFails(n) THEN "ErrDecode"
         ELSE IF n.ftype = "symlink" THEN "ErrSymlink"
         ELSE IF n.ftype \in {"file", "raw"} THEN "nil"
         ELSE "ErrFsnodeType"
    ELSE "nil"

\* (a Size that takes the length of a raw node's structured payload, which
\* it does not have)
SizeOfNodeRawAsEmpty(n) ==
    IF n.kind = "proto"
    THEN IF FSNodeFromBytesFails(n) THEN <<0, "ErrDecode">>
         ELSE <<Len(n.data), "nil">>
    ELSE IF n.kind = "raw" THEN <<0, "nil">>
    ELSE <<0, "ErrUnrecognized">>

\* File.Size's switch: <<size, error>>.

SizeOfNode(n) ==
    IF n.kind = "proto"
    THEN IF FSNodeFromBytesFails(n) THEN <<0, "ErrDecode">>
         ELSE <<Len(n.data), "nil">>
    ELSE IF n.kind = "raw" THEN <<Len(n.data), "nil">>
    ELSE <<0, "ErrUnrecognized">>

\* -------------------------------------------------------------- modifier
\* (a Modifier that starts from empty content instead of the node's)
NewDagModifierEmpty(n) == [base |-> n, buf |-> <<>>, off |-> 0]

\* mod.NewDagModifier bound to a node snapshot: pending content and cursor.
NewDagModifier(n) == [base |-> n, buf |-> n.data, off |-> 0]

\* The byte that fills content grown without being written.
ZeroByte == "0"

\* Content cut or zero-filled to the length size.
Resized(buf, size) ==
    [i \in 1..size |-> IF i <= Len(buf) THEN buf[i] ELSE ZeroByte]

\* Writing d at the cursor overlays the pending content.
Overlay(buf, off, d) ==
    LET b == IF off > Len(buf) THEN Resized(buf, off) ELSE buf
    IN  SubSeq(b, 1, off) \o d \o SubSeq(b, off + Len(d) + 1, Len(b))

ModWrite(m, d) ==
    [m EXCEPT !.buf = Overlay(m.buf, m.off, d), !.off = m.off + Len(d)]

\* Reading up to n bytes of the pending content at offset off.
ModRead(m, off, n) ==
    IF off >= Len(m.buf) THEN <<>>
    ELSE SubSeq(m.buf, off + 1, IF off + n <= Len(m.buf) THEN off + n ELSE Len(m.buf))

ModTruncate(m, size) == [m EXCEPT !.buf = Resized(m.buf, size)]

\* The node the Modifier materializes on flush.
Materialize(m) == [m.base EXCEPT !.data = m.buf]

\* wrote, after: history (the bytes this descriptor wrote at offset 0; the
\* bytes the last flush before its Open had written there)
NoFd == [perms |-> -1, sync |-> FALSE, mod |-> NewDagModifier(NoNode), closed |-> TRUE,
         wrote |-> <<>>, after |-> <<>>]

\* A descriptor after Close: its Modifier is discarded.
ClosedFd == [NoFd EXCEPT !.perms = -2]

IsWriteMode(p) == p \in {OpenWriteOnly, OpenReadWrite}

\* ----------------------------------------------------------------- state
VARIABLES
    node,        \* fi.node
    nodelk,      \* holder of fi.nodelk, or NoThread
    desclock,    \* fi.desclock: [readers, writer]
    parentNode,  \* the node the parent last recorded through the parent-closer
    deferred,    \* TRUE while a propagation to the parent is still deferred
    pc,          \* each thread's position
    call,        \* the call a thread runs inside Open: [op, flags, sync]
    lnode,       \* Open's local copy of fi.node
    fd,          \* the descriptor each thread holds
    fres,        \* File.Flush: what the descriptor's Flush returned
    ev,          \* the call that returned in the last step, if one did
    wowner,      \* history: the thread whose acquisition holds desclock exclusively
    syncSeen,    \* history: per running Sync, the writers open at its call that
                 \* are not yet closed, whether there was one, and whether one
                 \* of them closed with edits it had not flushed
    committedLen, \* history: length of the content the last successful flush held
    lastSize,    \* history: the Size result since the last stored flush, or -1
    flushed      \* history, kept by the round-trip specification only: the bytes
                 \* the last flushed descriptor had written at offset 0

vars == <<node, nodelk, desclock, parentNode, deferred, pc, call, lnode, fd,
          fres, ev, wowner, syncSeen, committedLen, lastSize, flushed>>

\* after: history, the bytes the last flush before the call had written at offset 0
NoCall == [op |-> "none", flags |-> 0, sync |-> FALSE, after |-> <<>>]
NoRes == [err |-> "nil", note |-> ""]
NoSeen == [left |-> {}, saw |-> FALSE, lost |-> FALSE]
\* the value of flushed in the specifications that keep no such history
Untracked == <<"untracked">>
\* arg: the flags of an Open, the offset of a Read, the size of a Truncate;
\* val: the result of Size, the count of Write, the count asked of Read,
\* for Sync the writers open since its call; note: what a Flush did for the
\* parent, for Sync "barrier" when a writer was open at its call
\* data: the bytes a Read returned; nd: the node GetNode returned; lost: for
\* Sync, a writer open at its call closed with edits it had not flushed
NoEv == [t |-> NoThread, op |-> "none", arg |-> 0, err |-> "nil", val |-> 0, note |-> "",
         data |-> <<>>, nd |-> NoNode, lost |-> FALSE]
Ev(t, op, err) == [NoEv EXCEPT !.t = t, !.op = op, !.err = err]

HasOpenFd(t) == ~fd[t].closed
OpenWriters == {t \in Threads : HasOpenFd(t) /\ IsWriteMode(fd[t].perms)}
OpenReaders == {t \in Threads : HasOpenFd(t) /\ fd[t].perms = OpenReadOnly}

InitOn(nodes) ==
    /\ node \in nodes
    /\ nodelk = NoThread
    /\ desclock = [readers |-> 0, writer |-> "free"]
    /\ parentNode = node
    /\ deferred = FALSE
    /\ pc = [t \in Threads |-> "idle"]
    /\ call = [t \in Threads |-> NoCall]
    /\ lnode = [t \in Threads |-> NoNode]
    /\ fd = [t \in Threads |-> NoFd]
    /\ fres = [t \in Threads |-> NoRes]
    /\ ev = NoEv
    /\ wowner = NoThread
    /\ syncSeen = [t \in Threads |-> NoSeen]
    /\ committedLen = Len(node.data)
    /\ lastSize = -1

\* ------------------------------------------------------------ sync.RWMutex
\* (an RLock that passes a writer that waits for the readers)
RLockFreeBarging(lk) == lk.writer # "held"
\* (an RLock that also waits for the other readers)
RLockFreeExclusive(lk) == lk.writer = "free" /\ lk.readers = 0
\* RLock returns at once unless a writer holds the lock or waits for it.
RLockFree(lk) == lk.writer = "free"
\* (an RLock that takes the lock exclusively)
RLockedAsLock(lk) == [lk EXCEPT !.writer = "held"]
RLocked(lk) == [lk EXCEPT !.readers = lk.readers + 1]

\* Lock first takes the writers' mutex, then waits for the active readers.
\* (a Lock that overlooks a writer holding the lock)
LockFreeBarging(lk) == lk.writer # "pending"
LockFree(lk) == lk.writer = "free"
\* (a Lock that does not wait for the readers)
LockDrainedNoWait(lk) == TRUE
LockDrained(lk) == lk.readers = 0
LockPending(lk) == [lk EXCEPT !.writer = "pending"]
LockHeld(lk) == [lk EXCEPT !.writer = "held"]

RUnlocked(lk) == [lk EXCEPT !.readers = lk.readers - 1]
\* Unlock hands the lock to the readers that blocked behind the writer.
BlockedReaders == {t \in Threads : pc[t] = "rlock_wait"}
Unlocked(lk) == [readers |-> lk.readers + Cardinality(BlockedReaders), writer |-> "free"]
WakeReaders(p) == [t \in Threads |-> IF p[t] = "rlock_wait" THEN "open_mod" ELSE p[t]]

\* Shared locks that no descriptor and no running Open accounts for.
LeakedReaders ==
    desclock.readers - Cardinality(OpenReaders)
        - Cardinality({t \in Threads : pc[t] = "open_mod" /\ call[t].flags = OpenReadOnly})

\* ------------------------------------------------------------------- Open
\* An Open that ends with error e; inside File.Flush the error is Flush's.
ReturnErr(t, e) ==
    /\ ev' = [Ev(t, call[t].op, e) EXCEPT !.arg = call[t].flags]
    /\ call' = [call EXCEPT ![t] = NoCall]
    /\ lnode' = [lnode EXCEPT ![t] = NoNode]
    /\ pc' = [pc EXCEPT ![t] = "idle"]

\* fi.Open(flags, sync): fi.nodelk.Lock()
OpenCall(t, flags, sync) ==
    /\ pc[t] = "idle" /\ ~HasOpenFd(t)
    /\ nodelk = NoThread
    /\ nodelk' = t
    /\ pc' = [pc EXCEPT ![t] = "open_read"]
    /\ call' = [call EXCEPT ![t] = [op |-> "Open", flags |-> flags, sync |-> sync,
                                    after |-> flushed]]
    \* the thread lets go of a descriptor it has closed
    /\ fd' = [fd EXCEPT ![t] = NoFd]
    /\ ev' = NoEv
    /\ UNCHANGED <<flushed, node, desclock, parentNode, deferred, lnode, fres, wowner,
                   syncSeen, committedLen, lastSize>>

\* (an Open that keeps the node mutex until it returns)
OpenReadNodeKeepsLock(t) ==
    /\ pc[t] = "open_read"
    /\ nodelk' = IF ValidateNode(node) = "nil" THEN nodelk ELSE NoThread
    /\ IF ValidateNode(node) = "nil"
       THEN /\ lnode' = [lnode EXCEPT ![t] = node]
            /\ pc' = [pc EXCEPT ![t] = "open_mode"]
            /\ ev' = NoEv
            /\ UNCHANGED call
       ELSE ReturnErr(t, ValidateNode(node))
    /\ UNCHANGED <<flushed, node, desclock, parentNode, deferred, fd, fres, wowner,
                   syncSeen, committedLen, lastSize>>

\* node := fi.node; fi.nodelk.Unlock(); then the switch on the node's type
OpenReadNode(t) ==
    /\ pc[t] = "open_read"
    /\ nodelk' = NoThread
    /\ IF ValidateNode(node) = "nil"
       THEN /\ lnode' = [lnode EXCEPT ![t] = node]
            /\ pc' = [pc EXCEPT ![t] = "open_mode"]
            /\ ev' = NoEv
            /\ UNCHANGED call
       ELSE ReturnErr(t, ValidateNode(node))
    /\ UNCHANGED <<flushed, node, desclock, parentNode, deferred, fd, fres, wowner,
                   syncSeen, committedLen, lastSize>>

\* case OpenReadOnly: fi.desclock.RLock()
OpenRLock(t) ==
    /\ pc[t] = "open_mode" /\ call[t].flags = OpenReadOnly
    /\ IF RLockFree(desclock)
       THEN /\ desclock' = RLocked(desclock)
            /\ pc' = [pc EXCEPT ![t] = "open_mod"]
       ELSE /\ pc' = [pc EXCEPT ![t] = "rlock_wait"]
            /\ UNCHANGED desclock
    /\ ev' = NoEv
    /\ UNCHANGED <<flushed, node, nodelk, parentNode, deferred, call, lnode, fd, fres,
                   wowner, syncSeen, committedLen, lastSize>>

\* case OpenWriteOnly, OpenReadWrite: fi.desclock.Lock()
OpenLock(t) ==
    /\ pc[t] = "open_mode" /\ IsWriteMode(call[t].flags)
    /\ LockFree(desclock)
    /\ IF LockDrained(desclock)
       THEN /\ desclock' = LockHeld(desclock)
            /\ wowner' = t
            /\ pc' = [pc EXCEPT ![t] = "open_mod"]
       ELSE /\ desclock' = LockPending(desclock)
            /\ pc' = [pc EXCEPT ![t] = "lock_drain"]
            /\ UNCHANGED wowner
    /\ ev' = NoEv
    /\ UNCHANGED <<flushed, node, nodelk, parentNode, deferred, call, lnode, fd, fres,
                   syncSeen, committedLen, lastSize>>

\* the writer that waited for the active readers gets the lock
OpenLockDrain(t) ==
    /\ pc[t] = "lock_drain"
    /\ LockDrained(desclock)
    /\ desclock' = LockHeld(desclock)
    /\ wowner' = t
    /\ pc' = [pc EXCEPT ![t] = "open_mod"]
    /\ ev' = NoEv
    /\ UNCHANGED <<flushed, node, nodelk, parentNode, deferred, call, lnode, fd, fres,
                   syncSeen, committedLen, lastSize>>

\* (a default case that returns with the shared lock taken)
OpenBadModeLocks(t) ==
    /\ pc[t] = "open_mode"
    /\ call[t].flags \notin {OpenReadOnly, OpenWriteOnly, OpenReadWrite}
    /\ RLockFree(desclock)
    /\ desclock' = RLocked(desclock)
    /\ ReturnErr(t, "ErrMode")
    /\ UNCHANGED <<flushed, node, nodelk, parentNode, deferred, fd, fres, wowner,
                   syncSeen, committedLen, lastSize>>

\* default: return nil, fmt.Errorf("mode not supported")
OpenBadMode(t) ==
    /\ pc[t] = "open_mode"
    /\ call[t].flags \notin {OpenReadOnly, OpenWriteOnly, OpenReadWrite}
    /\ ReturnErr(t, "ErrMode")
    /\ UNCHANGED <<flushed, node, nodelk, desclock, parentNode, deferred, fd, fres, wowner,
                   syncSeen, committedLen, lastSize>>

\* dmod, err := mod.NewDagModifier(...); if err != nil { return nil, err }
\* return &fileDescriptor{inode: fi, perms: flags, sync: sync, mod: dmod}
OpenMod(t) ==
    /\ pc[t] = "open_mod"
    /\ \E ok \in BOOLEAN :
         IF ok
         THEN /\ lnode[t].kind # "other"
              /\ fd' = [fd EXCEPT ![t] = [perms |-> call[t].flags, sync |-> call[t].sync,
                                          mod |-> NewDagModifier(lnode[t]),
                                          closed |-> FALSE,
                                          wrote |-> <<>>, after |-> call[t].after]]
              /\ lnode' = [lnode EXCEPT ![t] = NoNode]
              /\ IF call[t].op = "FileFlush"
                 THEN /\ pc' = [pc EXCEPT ![t] = "ff_flush"]
                      /\ ev' = NoEv
                      /\ UNCHANGED call
                 ELSE /\ pc' = [pc EXCEPT ![t] = "idle"]
                      /\ ev' = [Ev(t, "Open", "nil") EXCEPT !.arg = call[t].flags]
                      /\ call' = [call EXCEPT ![t] = NoCall]
         ELSE /\ IsWriteMode(call[t].flags) \/ LeakedReaders < MaxLeak
              /\ ReturnErr(t, "ErrModifier")
              /\ UNCHANGED fd
    /\ UNCHANGED <<flushed, node, nodelk, desclock, parentNode, deferred, fres, wowner,
                   syncSeen, committedLen, lastSize>>

\* ------------------------------------------------------------- descriptor
\* The lock state after the descriptor gives back the class it took at Open.
ReleaseOf(p, lk) == IF IsWriteMode(p) THEN Unlocked(lk) ELSE RUnlocked(lk)

\* fd.Write(d): delegated to the Modifier unless the mode forbids it.
FdWrite(t, d) ==
    /\ pc[t] = "idle" /\ HasOpenFd(t)
    /\ IF IsWriteMode(fd[t].perms)
       THEN /\ fd[t].mod.off + Len(d) <= MaxLen
            /\ fd' = [fd EXCEPT ![t].mod = ModWrite(fd[t].mod, d),
                                ![t].wrote = IF fd[t].mod.off = 0 /\ flushed # Untracked
                                             THEN d ELSE @]
            /\ ev' = [Ev(t, "Write", "nil") EXCEPT !.val = Len(d)]
       ELSE /\ ev' = Ev(t, "Write", "ErrPerm")
            /\ UNCHANGED fd
    /\ UNCHANGED <<flushed, node, nodelk, desclock, parentNode, deferred, pc, call, lnode,
                   fres, wowner, syncSeen, committedLen, lastSize>>

\* fd.Read(off, n): delegated to the Modifier unless the mode forbids it.
FdRead(t, off, n) ==
    /\ pc[t] = "idle" /\ HasOpenFd(t)
    /\ IF fd[t].perms = OpenWriteOnly
       THEN ev' = [Ev(t, "Read", "ErrPerm") EXCEPT !.arg = off, !.val = n]
       ELSE ev' = [Ev(t, "Read", "nil") EXCEPT
                     !.arg = off,
                     !.val = n,
                     !.data = ModRead(fd[t].mod, off, n)]
    /\ UNCHANGED <<flushed, node, nodelk, desclock, parentNode, deferred, pc, call, lnode,
                   fd, fres, wowner, syncSeen, committedLen, lastSize>>

\* fd.Truncate(size): delegated to the Modifier unless the mode forbids it.
FdTruncate(t, size) ==
    /\ pc[t] = "idle" /\ HasOpenFd(t)
    /\ IF IsWriteMode(fd[t].perms)
       THEN /\ fd' = [fd EXCEPT ![t].mod = ModTruncate(fd[t].mod, size),
                                ![t].wrote = <<>>]
            /\ ev' = [Ev(t, "Truncate", "nil") EXCEPT !.arg = size]
       ELSE /\ ev' = [Ev(t, "Truncate", "ErrPerm") EXCEPT !.arg = size]
            /\ UNCHANGED fd
    /\ UNCHANGED <<flushed, node, nodelk, desclock, parentNode, deferred, pc, call, lnode,
                   fres, wowner, syncSeen, committedLen, lastSize>>

\* history: descriptor t is closed
Closed(t) ==
    [u \in Threads |->
        [syncSeen[u] EXCEPT
            !.left = @ \ {t},
            !.lost = @ \/ (t \in syncSeen[u].left /\ fd[t].mod.buf # node.data)]]

\* fd.Close(): release the lock taken at Open, once; a second Close is an error.
FdClose(t) ==
    /\ pc[t] = "idle" /\ fd[t] # NoFd
    /\ IF fd[t].closed
       THEN /\ ev' = Ev(t, "Close", "ErrClosed")
            /\ UNCHANGED <<fd, desclock, pc, wowner, syncSeen>>
       ELSE /\ desclock' = ReleaseOf(fd[t].perms, desclock)
            /\ pc' = IF IsWriteMode(fd[t].perms) THEN WakeReaders(pc) ELSE pc
            /\ wowner' = IF IsWriteMode(fd[t].perms) THEN NoThread ELSE wowner
            /\ fd' = [fd EXCEPT ![t] = ClosedFd]
            /\ syncSeen' = Closed(t)
            /\ ev' = Ev(t, "Close", "nil")
    /\ UNCHANGED <<flushed, node, nodelk, parentNode, deferred, call, lnode, fres,
                   committedLen, lastSize>>

\* The descriptor's Flush ends with error e: a user's call returns; inside
\* File.Flush the deferred Close comes next.
FlushEnds(t, e, note) ==
    IF pc[t] = "ff_flush" \/ call[t].op = "FileFlush"
    THEN /\ fres' = [fres EXCEPT ![t] = [err |-> e, note |-> note]]
         /\ pc' = [pc EXCEPT ![t] = "ff_close"]
         /\ ev' = NoEv
    ELSE /\ ev' = [Ev(t, "Flush", e) EXCEPT !.note = note]
         /\ pc' = [pc EXCEPT ![t] = "idle"]
         /\ UNCHANGED fres

\* fd.Flush(): the Modifier materializes the pending edits, or fails.
FdFlush(t) ==
    /\ \/ pc[t] = "idle" /\ HasOpenFd(t)
       \/ pc[t] = "ff_flush"
    /\ \E ok \in BOOLEAN :
         IF ok
         THEN /\ nodelk = NoThread
              /\ nodelk' = t
              /\ pc' = [pc EXCEPT ![t] = "flush_store"]
              /\ ev' = NoEv
              /\ UNCHANGED fres
         ELSE /\ FlushEnds(t, "ErrFlush", "")
              /\ UNCHANGED nodelk
    /\ UNCHANGED <<flushed, node, desclock, parentNode, deferred, call, lnode, fd, wowner,
                   syncSeen, committedLen, lastSize>>

\* the new node is stored into the File under the node mutex
FlushStore(t) ==
    /\ pc[t] = "flush_store"
    /\ node' = Materialize(fd[t].mod)
    /\ committedLen' = Len(fd[t].mod.buf)
    /\ flushed' = IF flushed = Untracked THEN Untracked ELSE fd[t].wrote
    /\ lastSize' = -1
    /\ nodelk' = NoThread
    /\ IF fd[t].sync
       THEN /\ pc' = [pc EXCEPT ![t] = "flush_notify"]
            /\ ev' = NoEv
            /\ UNCHANGED <<deferred, fres>>
       ELSE /\ deferred' = TRUE
            /\ FlushEnds(t, "nil", "deferred")
    /\ UNCHANGED <<desclock, parentNode, call, lnode, fd, wowner, syncSeen>>

\* fullSync: the parent-closer is called with the new node before Flush returns
FlushNotify(t) ==
    /\ pc[t] = "flush_notify"
    /\ parentNode' = Materialize(fd[t].mod)
    /\ FlushEnds(t, "nil", "notified")
    /\ UNCHANGED <<flushed, node, nodelk, desclock, deferred, call, lnode, fd, wowner,
                   syncSeen, committedLen, lastSize>>

\* a deferred propagation reaches the parent later, with the File's node
DeferredNotify ==
    /\ deferred
    /\ parentNode' = node
    /\ deferred' = FALSE
    /\ ev' = NoEv
    /\ UNCHANGED <<flushed, node, nodelk, desclock, pc, call, lnode, fd, fres, wowner,
                   syncSeen, committedLen, lastSize>>

\* ------------------------------------------------------------- File.Flush
\* (a File.Flush that opens its descriptor without full sync)
FileFlushOpenArgsNoSync == [NoCall EXCEPT !.op = "FileFlush", !.flags = OpenWriteOnly]

\* (a File.Flush that opens its descriptor read-only)
FileFlushOpenArgsReadOnly ==
    [NoCall EXCEPT !.op = "FileFlush", !.flags = OpenReadOnly, !.sync = TRUE]

\* fd, err := fi.Open(OpenWriteOnly, true)
FileFlushOpenArgs ==
    [NoCall EXCEPT !.op = "FileFlush", !.flags = OpenWriteOnly, !.sync = TRUE]

FileFlushCall(t) ==
    /\ pc[t] = "idle" /\ ~HasOpenFd(t)
    /\ nodelk = NoThread
    /\ nodelk' = t
    /\ pc' = [pc EXCEPT ![t] = "open_read"]
    /\ call' = [call EXCEPT ![t] = [FileFlushOpenArgs EXCEPT !.after = flushed]]
    /\ fd' = [fd EXCEPT ![t] = NoFd]
    /\ ev' = NoEv
    /\ UNCHANGED <<flushed, node, desclock, parentNode, deferred, lnode, fres, wowner,
                   syncSeen, committedLen, lastSize>>

\* (a File.Flush that returns what the deferred Close returned)
FileFlushResultOfClose(flushErr, closeErr) == closeErr

\* defer fd.Close(); return fd.Flush()
FileFlushResult(flushErr, closeErr) == flushErr

FileFlushReturn(t) ==
    /\ pc[t] = "ff_close"
    /\ desclock' = ReleaseOf(fd[t].perms, desclock)
    /\ wowner' = NoThread
    /\ syncSeen' = Closed(t)
    /\ fd' = [fd EXCEPT ![t] = NoFd]
    /\ ev' = [Ev(t, "FileFlush", FileFlushResult(fres[t].err, "nil"))
                EXCEPT !.note = fres[t].note]
    /\ pc' = [WakeReaders(pc) EXCEPT ![t] = "idle"]
    /\ call' = [call EXCEPT ![t] = NoCall]
    /\ fres' = [fres EXCEPT ![t] = NoRes]
    /\ UNCHANGED <<flushed, node, nodelk, parentNode, deferred, lnode, committedLen, lastSize>>

\* -------------------------------------------------------------- File.Sync
SyncCall(t) ==
    /\ pc[t] = "idle" /\ ~HasOpenFd(t)
    /\ pc' = [pc EXCEPT ![t] = "sync_lock"]
    /\ syncSeen' = [syncSeen EXCEPT ![t] = [left |-> OpenWriters, saw |-> OpenWriters # {},
                                            lost |-> FALSE]]
    /\ fd' = [fd EXCEPT ![t] = NoFd]
    /\ ev' = NoEv
    /\ UNCHANGED <<flushed, node, nodelk, desclock, parentNode, deferred, call, lnode, fres,
                   wowner, committedLen, lastSize>>

\* (a Sync that returns without taking the lock)
\* return nil
SyncReturns(t) ==
    /\ pc' = [WakeReaders(pc) EXCEPT ![t] = "idle"]
    /\ ev' = [Ev(t, "Sync", "nil") EXCEPT
                !.val = Cardinality(syncSeen[t].left),
                !.note = IF syncSeen[t].saw THEN "barrier" ELSE "",
                !.lost = syncSeen[t].lost]
    /\ syncSeen' = [syncSeen EXCEPT ![t] = NoSeen]

SyncLockNoBarrier(t) ==
    /\ pc[t] = "sync_lock"
    /\ SyncReturns(t)
    /\ UNCHANGED <<flushed, node, nodelk, desclock, parentNode, deferred, call, lnode, fd, fres,
                   wowner, committedLen, lastSize>>

\* fi.desclock.Lock(); fi.desclock.Unlock(); return nil
SyncLock(t) ==
    /\ pc[t] = "sync_lock"
    /\ LockFree(desclock)
    /\ IF LockDrained(desclock)
       THEN /\ SyncReturns(t)
            /\ UNCHANGED desclock
       ELSE /\ desclock' = LockPending(desclock)
            /\ pc' = [pc EXCEPT ![t] = "sync_drain"]
            /\ ev' = NoEv
            /\ UNCHANGED syncSeen
    /\ UNCHANGED <<flushed, node, nodelk, parentNode, deferred, call, lnode, fd, fres, wowner,
                   committedLen, lastSize>>

SyncDrain(t) ==
    /\ pc[t] = "sync_drain"
    /\ LockDrained(desclock)
    /\ desclock' = Unlocked(desclock)
    /\ SyncReturns(t)
    /\ UNCHANGED <<flushed, node, nodelk, parentNode, deferred, call, lnode, fd, fres, wowner,
                   committedLen, lastSize>>

\* -------------------------------------------------------------- File.Size
\* fi.nodelk.Lock(); defer fi.nodelk.Unlock()
SizeCall(t) ==
    /\ pc[t] = "idle" /\ ~HasOpenFd(t)
    /\ nodelk = NoThread
    /\ nodelk' = t
    /\ pc' = [pc EXCEPT ![t] = "size_read"]
    /\ ev' = NoEv
    /\ UNCHANGED <<flushed, node, desclock, parentNode, deferred, call, lnode, fd, fres,
                   wowner, syncSeen, committedLen, lastSize>>

SizeRead(t) ==
    /\ pc[t] = "size_read"
    /\ ev' = [Ev(t, "Size", SizeOfNode(node)[2]) EXCEPT !.val = SizeOfNode(node)[1]]
    /\ lastSize' = IF SizeOfNode(node)[2] = "nil" THEN SizeOfNode(node)[1] ELSE lastSize
    /\ nodelk' = NoThread
    /\ pc' = [pc EXCEPT ![t] = "idle"]
    /\ UNCHANGED <<flushed, node, desclock, parentNode, deferred, call, lnode, fd, fres,
                   wowner, syncSeen, committedLen>>

\* ----------------------------------------------------------- File.GetNode
\* fi.nodelk.Lock(); defer fi.nodelk.Unlock()
GetNodeCall(t) ==
    /\ pc[t] = "idle"
    /\ nodelk = NoThread
    /\ nodelk' = t
    /\ pc' = [pc EXCEPT ![t] = "getnode_read"]
    /\ ev' = NoEv
    /\ UNCHANGED <<flushed, node, desclock, parentNode, deferred, call, lnode, fd, fres,
                   wowner, syncSeen, committedLen, lastSize>>

\* (a GetNode that returns the node the parent has recorded)
GetNodeReadParent(t) ==
    /\ pc[t] = "getnode_read"
    /\ ev' = [Ev(t, "GetNode", "nil") EXCEPT !.nd = parentNode]
    /\ nodelk' = NoThread
    /\ pc' = [pc EXCEPT ![t] = "idle"]
    /\ UNCHANGED <<flushed, node, desclock, parentNode, deferred, call, lnode, fd, fres,
                   wowner, syncSeen, committedLen, lastSize>>

\* return fi.node, nil
GetNodeRead(t) ==
    /\ pc[t] = "getnode_read"
    /\ ev' = [Ev(t, "GetNode", "nil") EXCEPT !.nd = node]
    /\ nodelk' = NoThread
    /\ pc' = [pc EXCEPT ![t] = "idle"]
    /\ UNCHANGED <<flushed, node, desclock, parentNode, deferred, call, lnode, fd, fres,
                   wowner, syncSeen, committedLen, lastSize>>

\* ------------------------------------------------------------------- Next
\* The arguments of Open in the specification with file content.
ContentOpens ==
    {<<OpenReadOnly, FALSE>>, <<OpenWriteOnly, FALSE>>, <<OpenWriteOnly, TRUE>>,
     <<OpenReadWrite, FALSE>>, <<BadMode, FALSE>>}

\* Every operation, on two threads, with file content.
Init == InitOn(ContentNodes) /\ flushed = Untracked

Next ==
    \/ \E t \in Workers, a \in ContentOpens : OpenCall(t, a[1], a[2])
    \/ \E t \in Workers : OpenReadNode(t)
    \/ \E t \in Workers : OpenRLock(t)
    \/ \E t \in Workers : OpenLock(t)
    \/ \E t \in Workers : OpenLockDrain(t)
    \/ \E t \in Workers : OpenBadMode(t)
    \/ \E t \in Workers : OpenMod(t)
    \/ \E t \in Workers, d \in WriteData : FdWrite(t, d)
    \/ \E t \in Workers : FdClose(t)
    \/ \E t \in Workers : FdFlush(t)
    \/ \E t \in Workers : FlushStore(t)
    \/ \E t \in Workers : FlushNotify(t)
    \/ DeferredNotify
    \/ \E t \in Workers : FileFlushCall(t)
    \/ \E t \in Workers : FileFlushReturn(t)
    \/ \E t \in Workers : SyncCall(t)
    \/ \E t \in Workers : SyncLock(t)
    \/ \E t \in Workers : SyncDrain(t)
    \/ \E t \in Workers : SizeCall(t)
    \/ \E t \in Workers : SizeRead(t)

Spec == Init /\ [][Next]_vars

\* The operations that take or release the descriptor lock, on every thread
\* and every kind of node; the only flush is the one inside File.Flush.
InitLock == InitOn(InitNodes) /\ flushed = Untracked

NextLock ==
    \/ \E t \in Threads, flags \in Modes, sync \in BOOLEAN : OpenCall(t, flags, sync)
    \/ \E t \in Threads : OpenReadNode(t)
    \/ \E t \in Threads : OpenRLock(t)
    \/ \E t \in Threads : OpenLock(t)
    \/ \E t \in Threads : OpenLockDrain(t)
    \/ \E t \in Threads : OpenBadMode(t)
    \/ \E t \in Threads : OpenMod(t)
    \/ \E t \in Threads : FdClose(t)
    \/ \E t \in Threads : pc[t] = "ff_flush" /\ FdFlush(t)
    \/ \E t \in Threads : FlushStore(t)
    \/ \E t \in Threads : FlushNotify(t)
    \/ \E t \in Threads : FileFlushCall(t)
    \/ \E t \in Threads : FileFlushReturn(t)
    \/ \E t \in Threads : SyncCall(t)
    \/ \E t \in Threads : SyncLock(t)
    \/ \E t \in Threads : SyncDrain(t)

SpecLock == InitLock /\ [][NextLock]_vars

\* Every operation of the File and of its descriptors, on two threads, on a
\* raw node and on a node that Open rejects.
NodeNodes == {RawNode(<<>>), ProtoNode("symlink", <<>>)}
NodeOpens == {<<OpenReadOnly, FALSE>>, <<OpenWriteOnly, TRUE>>, <<BadMode, FALSE>>}

InitNode == InitOn(NodeNodes) /\ flushed = Untracked

NextNode ==
    \/ \E t \in Workers, a \in NodeOpens : OpenCall(t, a[1], a[2])
    \/ \E t \in Workers : OpenReadNode(t)
    \/ \E t \in Workers : OpenRLock(t)
    \/ \E t \in Workers : OpenLock(t)
    \/ \E t \in Workers : OpenLockDrain(t)
    \/ \E t \in Workers : OpenBadMode(t)
    \/ \E t \in Workers : OpenMod(t)
    \/ \E t \in Workers, d \in WriteData : FdWrite(t, d)
    \/ \E t \in Workers : FdRead(t, 0, MaxLen)
    \/ \E t \in Workers : FdTruncate(t, 0)
    \/ \E t \in Workers : FdClose(t)
    \/ \E t \in Workers : FdFlush(t)
    \/ \E t \in Workers : FlushStore(t)
    \/ \E t \in Workers : FlushNotify(t)
    \/ \E t \in Workers : FileFlushCall(t)
    \/ \E t \in Workers : FileFlushReturn(t)
    \/ \E t \in Workers : SyncCall(t)
    \/ \E t \in Workers : SyncLock(t)
    \/ \E t \in Workers : SyncDrain(t)
    \/ \E t \in Workers : SizeCall(t)
    \/ \E t \in Workers : SizeRead(t)
    \/ \E t \in Workers : GetNodeCall(t)
    \/ \E t \in Workers : GetNodeRead(t)

SpecNode == InitNode /\ [][NextNode]_vars

\* A writing thread and a reading thread on one File that already has
\* content, over two byte values; the history of flushed writes is kept.
RTBytes == {"a", "b"}
RTData == UNION {[1..n -> RTBytes] : n \in 1..MaxLen}
RTNodes == {ProtoNode("file", <<"b", "b">>)}
RTWriter == 1
RTReader == 2

InitRT == InitOn(RTNodes) /\ flushed = <<>>

NextRT ==
    \/ OpenCall(RTWriter, OpenWriteOnly, FALSE)
    \/ OpenCall(RTReader, OpenReadOnly, FALSE)
    \/ \E t \in Workers : OpenReadNode(t)
    \/ \E t \in Workers : OpenRLock(t)
    \/ \E t \in Workers : OpenLock(t)
    \/ \E t \in Workers : OpenLockDrain(t)
    \/ \E t \in Workers : OpenMod(t)
    \/ \E t \in Workers, d \in RTData : FdWrite(t, d)
    \/ \E t \in Workers, n \in 1..MaxLen : FdRead(t, 0, n)
    \/ \E t \in Workers : FdFlush(t)
    \/ \E t \in Workers : FlushStore(t)
    \/ DeferredNotify
    \/ \E t \in Workers : FdClose(t)

SpecRT == InitRT /\ [][NextRT]_vars

\* The lock operations under fair scheduling, when the Modifier constructor
\* never fails and every descriptor is closed, once, before its thread makes
\* another call on the File.
LiveNodes == {RawNode(<<>>)}
LiveModes == {OpenReadOnly, OpenWriteOnly, OpenReadWrite}

InitLive == InitOn(LiveNodes) /\ flushed = Untracked

LiveOpenMod(t) == OpenMod(t) /\ HasOpenFd(t)'
LiveClose(t) == HasOpenFd(t) /\ FdClose(t)
LiveFlush(t) == pc[t] = "ff_flush" /\ FdFlush(t)

NextLive ==
    \/ \E t \in Threads, flags \in LiveModes : OpenCall(t, flags, FALSE)
    \/ \E t \in Threads : OpenReadNode(t)
    \/ \E t \in Threads : OpenRLock(t)
    \/ \E t \in Threads : OpenLock(t)
    \/ \E t \in Threads : OpenLockDrain(t)
    \/ \E t \in Threads : LiveOpenMod(t)
    \/ \E t \in Threads : LiveClose(t)
    \/ \E t \in Threads : LiveFlush(t)
    \/ \E t \in Threads : FlushStore(t)
    \/ \E t \in Threads : FlushNotify(t)
    \/ \E t \in Threads : FileFlushCall(t)
    \/ \E t \in Threads : FileFlushReturn(t)
    \/ \E t \in Threads : SyncCall(t)
    \/ \E t \in Threads : SyncLock(t)
    \/ \E t \in Threads : SyncDrain(t)

\* The steps of thread t that nothing delays once it stands before them,
\* and those that wait for a mutex (the writers' mutex inside desclock.Lock,
\* or nodelk).  At most one step of a thread is enabled at a time.
Running(t) ==
    \/ OpenReadNode(t) \/ OpenRLock(t) \/ OpenLockDrain(t) \/ LiveOpenMod(t)
    \/ LiveClose(t) \/ FlushStore(t) \/ FlushNotify(t) \/ FileFlushReturn(t)
    \/ SyncDrain(t)
Acquiring(t) == OpenLock(t) \/ LiveFlush(t) \/ SyncLock(t)

\* A running thread takes its next step; a thread that waits for a mutex
\* gets it when it is free again and again, sync.Mutex being starvation-free;
\* a writer that waits for the readers to leave has no such promise.
Fairness ==
    \A t \in Threads : WF_vars(Running(t)) /\ SF_vars(Acquiring(t))

SpecLive == InitLive /\ [][NextLive]_vars /\ Fairness

\* ================================================================= claims

\* C1: the open descriptors are any number of read-only ones or exactly one
\* write-mode one: never two writers, never a writer beside a reader.
C1_ReadersOrOneWriter ==
    /\ Cardinality(OpenWriters) <= 1
    /\ OpenWriters # {} => OpenReaders = {}

\* a writer is open while another thread's read-only Open waits for the lock
C1_Witness ==
    \E t \in Threads, u \in Threads :
        t \in OpenWriters /\ pc[u] = "rlock_wait"

\* C2: a write-mode Open returns its descriptor only when no other write-mode
\* descriptor is open (the earlier one's Close has returned), and an open
\* write-mode descriptor keeps the exclusive lock held.
Opens(t) == ~HasOpenFd(t) /\ HasOpenFd(t)'

C2_WritersSerialized ==
    [][\A t \in Threads :
          /\ (Opens(t) /\ IsWriteMode(fd'[t].perms))
                => \A u \in Threads \ {t} : u \notin OpenWriters
          /\ t \in OpenWriters => desclock.writer = "held" /\ wowner = t]_vars

\* a second Open(WriteOnly) has read the node and waits while the first
\* write-only descriptor is still open
C2_Witness ==
    \E t \in Threads, u \in Threads :
        /\ u \in OpenWriters /\ fd[u].perms = OpenWriteOnly
        /\ pc[t] = "open_mode" /\ call[t].op = "Open" /\ call[t].flags = OpenWriteOnly

\* C3: when Sync returns, every write-mode descriptor that was open when it
\* was called has been closed; Sync returns no error and leaves the lock free.
C3_SyncBarrier ==
    ev.op = "Sync" =>
        /\ ev.val = 0
        /\ ev.err = "nil"
        /\ desclock.writer = "free"

\* a Sync that was called while a write-mode descriptor was open has returned
C3_Witness ==
    ev.op = "Sync" /\ ev.note = "barrier"

\* C4: whenever Open returns a descriptor, the snapshot its Modifier is bound
\* to is the File's current node at that moment.
C4_SnapshotIsCurrent ==
    [][\A t \in Threads : Opens(t) => fd'[t].mod.base = node']_vars

\* A step of thread t inside an Open.
InOpen(t) == pc[t] \in {"open_read", "open_mode", "rlock_wait", "lock_drain", "open_mod"}
OpenStep(t) == InOpen(t) /\ pc'[t] # pc[t]
IsValidMode(m) == m \in {OpenReadOnly, OpenWriteOnly, OpenReadWrite}

\* C5 as stated: an Open with a mode outside the three defined ones returns
\* the unsupported-mode error and leaves the lock and the node as they were.
C5_BadModeAlwaysErrMode ==
    [][\A t \in Threads :
          (OpenStep(t) /\ ~IsValidMode(call[t].flags))
              => /\ desclock' = desclock /\ node' = node
                 /\ ev'.t = t => ev'.err = "ErrMode"]_vars

\* C5 amended: such an Open takes no lock and changes neither the lock nor
\* the node; it returns the unsupported-mode error when the node passed the
\* type switch, and the type switch's error otherwise.
C5_BadModeTakesNoLock ==
    [][\A t \in Threads :
          (OpenStep(t) /\ ~IsValidMode(call[t].flags))
              => /\ desclock' = desclock /\ node' = node
                 /\ pc'[t] \in {"open_mode", "idle"}
                 /\ pc'[t] = "idle" => ev'.t = t /\ ev'.arg = call[t].flags
                 /\ (pc[t] = "open_mode" => ev'.err = "ErrMode")
                 /\ (pc[t] = "open_read" /\ pc'[t] = "idle")
                        => ev'.err = ValidateNode(node) /\ ev'.err # "nil"]_vars

\* an Open with an undefined mode has returned the unsupported-mode error
\* while another thread's descriptor holds the lock
C5_Witness ==
    /\ ev.op = "Open" /\ ev.err = "ErrMode" /\ ~IsValidMode(ev.arg)
    /\ \E u \in Threads : HasOpenFd(u)

\* C6: on a structured node of type Symlink, Open fails with the symlink
\* error for every mode and both fullSync values, and a structured node of a
\* type other than File, Raw or Symlink fails with the unsupported-type
\* error; in both cases before any lock is taken.
IsSymlink(n) == n.kind = "proto" /\ ~FSNodeFromBytesFails(n) /\ n.ftype = "symlink"
IsOtherType(n) ==
    n.kind = "proto" /\ ~FSNodeFromBytesFails(n) /\ n.ftype \notin {"file", "raw", "symlink"}

C6_SymlinkRejected ==
    [][\A t \in Threads :
          (pc[t] = "open_read" /\ pc'[t] # pc[t] /\ (IsSymlink(node) \/ IsOtherType(node)))
              => /\ pc'[t] = "idle" /\ ev'.t = t /\ ev'.op = call[t].op
                 /\ ev'.err = (IF IsSymlink(node) THEN "ErrSymlink" ELSE "ErrFsnodeType")
                 /\ desclock' = desclock /\ ~HasOpenFd(t)']_vars

\* an Open with an undefined mode has failed on a symlink
C6_Witness ==
    /\ ev.op = "Open" /\ ev.err = "ErrSymlink" /\ ~IsValidMode(ev.arg)
    /\ IsSymlink(node)

\* C7: when File.Flush returns, with success or with an error, the thread
\* holds no lock of the File.
C7_FileFlushHoldsNoLock ==
    ev.op = "FileFlush" => wowner # ev.t /\ ~HasOpenFd(ev.t)

\* C8: a Flush of a full-sync descriptor, and File.Flush, which opens its
\* descriptor with full sync, have called the parent-closer with the newly
\* stored node when they return; a Flush without full sync may return first.
C8_FullSyncNotifiesParent ==
    /\ (ev.op = "Flush" /\ ev.err = "nil" /\ fd[ev.t].sync)
          => ev.note = "notified" /\ parentNode = Materialize(fd[ev.t].mod)
    /\ (ev.op = "FileFlush" /\ ev.err = "nil") => ev.note = "notified"
    /\ \A t \in Threads :
          (pc[t] = "ff_close" /\ fres[t].err = "nil") => fres[t].note = "notified"

\* File.Flush has returned after notifying the parent, while the propagation
\* of an earlier Flush without full sync, which has returned, is still due
C8_Witness ==
    /\ ev.op = "FileFlush" /\ ev.err = "nil" /\ ev.note = "notified"
    /\ deferred

\* C9: a failed Flush stores nothing into the File, and its error reaches the
\* caller: File.Flush returns it whatever the deferred Close returns.
C9_FailedFlushInstallsNothing ==
    [][/\ (ev'.op = "Flush" /\ ev'.err # "nil")
            => node' = node /\ parentNode' = parentNode
       /\ \A t \in Threads :
            /\ (pc[t] = "ff_flush" /\ pc'[t] = "ff_close")
                  => fres'[t].err = "ErrFlush" /\ node' = node /\ parentNode' = parentNode
            /\ (pc[t] = "ff_close" /\ pc'[t] = "idle")
                  => ev'.op = "FileFlush" /\ ev'.err = fres[t].err /\ node' = node]_vars

\* File.Flush has returned the error of its descriptor's failed Flush
C9_Witness ==
    ev.op = "FileFlush" /\ ev.err = "ErrFlush" /\ wowner = NoThread

\* C10: Size returns the length of the content held by the last successful
\* flush, not that of pending writes, and the same value as the Size before
\* it when no flush came between.
IsFileShaped(n) == ValidateNode(n) = "nil" /\ n.kind \in {"proto", "raw"}

C10_SizeOfFlushedNode ==
    [][ev'.op = "Size"
          => /\ IsFileShaped(node) => ev'.err = "nil"
             /\ ev'.err = "nil" => ev'.val = committedLen
             /\ (ev'.err = "nil" /\ lastSize # -1) => ev'.val = lastSize]_vars

\* a thread that has closed its descriptor got from Size the length of the
\* content a Write and a Flush committed
C10_Witness ==
    /\ ev.op = "Size" /\ ev.err = "nil" /\ ev.val > 0
    /\ fd[ev.t] = ClosedFd
    /\ pc[ev.t] = "idle"

\* C11: after Open(WriteOnly), a Write of bytes at offset 0 and a Flush, an
\* Open(ReadOnly) called next and a Read of len(bytes) bytes at offset 0 on
\* its descriptor return exactly bytes.
C11_RoundTrip ==
    (/\ ev.op = "Read" /\ ev.err = "nil" /\ ev.arg = 0
     /\ fd[ev.t].perms = OpenReadOnly
     /\ ev.val = Len(fd[ev.t].after))
        => ev.data = fd[ev.t].after

\* a read-only descriptor has read back the byte "a" that a writer wrote over
\* the first byte of the content "bb" and flushed
C11_Witness ==
    /\ ev.op = "Read" /\ ev.err = "nil" /\ ev.arg = 0
    /\ fd[ev.t].perms = OpenReadOnly
    /\ fd[ev.t].after = <<"a">>
    /\ ev.data = <<"a">>
    /\ Len(fd[ev.t].mod.base.data) = 2 /\ fd[ev.t].mod.base.data[2] = "b"

\* A thread that asks for the exclusive lock or holds a write-mode descriptor.
IsWriter(u) ==
    \/ u \in OpenWriters
    \/ call[u].op # "none" /\ IsWriteMode(call[u].flags)
    \/ pc[u] \in {"sync_lock", "sync_drain"}

\* C12 as stated: on a file-shaped node an Open(ReadOnly) always returns a
\* descriptor, and it never waits while only read-only descriptors are open.
C12_ReadOnlyOpenAlwaysSucceeds ==
    /\ (ev.op = "Open" /\ ev.arg = OpenReadOnly /\ IsFileShaped(node))
          => ev.err = "nil" /\ HasOpenFd(ev.t)
    /\ \A t \in Threads :
          pc[t] = "rlock_wait" => \E u \in Threads : IsWriter(u)

\* C12 amended: on a file-shaped node an Open(ReadOnly) returns a descriptor
\* unless the Modifier constructor fails, and it waits only while the lock is
\* held exclusively or a writer waits for it, never for other readers.
C12_ReadOnlyOpenWaitsOnlyForWriter ==
    /\ (ev.op = "Open" /\ ev.arg = OpenReadOnly /\ IsFileShaped(node))
          => /\ ev.err \in {"nil", "ErrModifier"}
             /\ ev.err = "nil" => HasOpenFd(ev.t) /\ fd[ev.t].perms = OpenReadOnly
    /\ \A t \in Threads :
          pc[t] = "rlock_wait" => desclock.writer \in {"pending", "held"}

\* an Open(ReadOnly) has returned a descriptor while another read-only
\* descriptor is open
C12_Witness ==
    /\ ev.op = "Open" /\ ev.arg = OpenReadOnly /\ ev.err = "nil"
    /\ IsFileShaped(node)
    /\ \E u \in Threads \ {ev.t} : u \in OpenReaders

\* A step in which thread t's call of Close on its descriptor returns.
CloseStep(t) == pc[t] = "idle" /\ ev'.op = "Close" /\ ev'.t = t

\* C13: Close gives back the lock class its descriptor took at Open, shared
\* for ReadOnly and exclusive for the write modes, once: a second Close
\* returns an error and leaves the lock alone, so every open descriptor
\* still has its hold on the lock.
C13_CloseReleasesOnce ==
    [][/\ \A t \in Threads :
            CloseStep(t) =>
                /\ t \in OpenReaders =>
                      /\ ev'.err = "nil" /\ ~HasOpenFd(t)'
                      /\ desclock.readers >= 1
                      /\ desclock' = [desclock EXCEPT !.readers = @ - 1]
                /\ t \in OpenWriters =>
                      /\ ev'.err = "nil" /\ ~HasOpenFd(t)'
                      /\ desclock.writer = "held" /\ wowner = t
                      /\ desclock'.writer = "free"
                      /\ desclock'.readers = Cardinality(BlockedReaders)
                /\ ~HasOpenFd(t) =>
                      /\ ev'.err = "ErrClosed"
                      /\ desclock' = desclock /\ wowner' = wowner /\ fd' = fd
       /\ Cardinality(OpenReaders) <= desclock.readers
       /\ \A u \in OpenWriters : desclock.writer = "held" /\ wowner = u]_vars

\* a second Close of a descriptor has returned its error while another
\* thread's descriptor is open and holds the lock
C13_Witness ==
    /\ ev.op = "Close" /\ ev.err = "ErrClosed"
    /\ \E u \in Threads \ {ev.t} : HasOpenFd(u)

\* C14: when Sync returns, every write-mode descriptor that was closed before
\* Sync got the lock has committed its edits to the File's node.
C14_SyncLeavesNoUnflushedWriter ==
    ev.op = "Sync" => ~ev.lost

\* The calls that are not a Flush.
FrameOps == {"Open", "Size", "GetNode", "Sync", "Read", "Write", "Truncate", "Close"}

\* C15: the File's node changes only when a descriptor's successful Flush
\* stores the node its Modifier materialized; Open, Size, GetNode, Sync, Read,
\* Write, Truncate and Close leave it as it is, and GetNode returns it.
C15_OnlyFlushChangesNode ==
    [][/\ node' # node =>
            \E t \in Threads :
                /\ pc[t] = "flush_store" /\ pc'[t] # "flush_store"
                /\ node' = Materialize(fd[t].mod)
       /\ ev'.op \in FrameOps => node' = node
       /\ \A t \in Threads : (InOpen(t) /\ pc'[t] # pc[t]) => node' = node
       /\ ev'.op = "GetNode" => ev'.err = "nil" /\ ev'.nd = node]_vars

\* GetNode has returned the node a Flush stored, with the written byte, while
\* a write-mode descriptor has truncated its pending content to nothing
C15_Witness ==
    /\ ev.op = "GetNode" /\ ev.nd = node /\ ev.nd.data = <<"a">>
    /\ \E u \in OpenWriters : fd[u].mod.buf = <<>>

\* A thread that waits for the descriptor lock.
WaitsForDesclock(u) ==
    \/ pc[u] \in {"rlock_wait", "lock_drain", "sync_lock", "sync_drain"}
    \/ pc[u] = "open_mode" /\ IsValidMode(call[u].flags) /\ desclock.writer # "free"

\* C16: Size and GetNode take the node mutex only: their steps leave the
\* descriptor lock alone, they can be called whenever the node mutex is free
\* and finish once they hold it, whoever holds or awaits the descriptor lock;
\* and no thread holds the node mutex while it waits for the descriptor lock.
C16_AccessorsTakeOnlyNodelk ==
    [][/\ \A t \in Workers :
            /\ (pc[t] \in {"size_read", "getnode_read"} \/ pc'[t] \in {"size_read", "getnode_read"})
                  => (pc'[t] # pc[t] => desclock' = desclock /\ wowner' = wowner)
            /\ pc[t] = "size_read" => nodelk = t /\ ENABLED SizeRead(t)
            /\ pc[t] = "getnode_read" => nodelk = t /\ ENABLED GetNodeRead(t)
            /\ (pc[t] = "idle" /\ nodelk = NoThread) => ENABLED GetNodeCall(t)
            /\ (pc[t] = "idle" /\ nodelk = NoThread /\ ~HasOpenFd(t)) => ENABLED SizeCall(t)
            /\ nodelk = t => ~WaitsForDesclock(t)
            /\ nodelk = t => pc[t] \in {"open_read", "size_read", "getnode_read", "flush_store"}
      ]_vars

\* the thread that holds a write-mode descriptor has got the node from GetNode
\* while the other thread's Open waits for the descriptor lock
C16_Witness ==
    /\ ev.op = "GetNode" /\ ev.err = "nil"
    /\ ev.t \in OpenWriters
    /\ \E u \in Threads \ {ev.t} : pc[u] \in {"rlock_wait", "open_mode"} /\ WaitsForDesclock(u)

\* C17: the read-only descriptors that are open at the same time are bound
\* to one node snapshot, and it is the File's current node.
C17_ReadersShareCurrentNode ==
    \A t \in OpenReaders, u \in OpenReaders :
        /\ fd[t].mod.base = fd[u].mod.base
        /\ fd[t].mod.base = node

\* A thread whose Flush is calling the parent-closer.
CallsParentCloser(t) == pc[t] = "flush_notify"

\* C18 as stated: a thread that calls the parent-closer holds neither the
\* node mutex nor the descriptor lock of the File.
C18_ParentCloserHoldsNoLock ==
    \A t \in Threads :
        CallsParentCloser(t) => nodelk # t /\ ~HasOpenFd(t) /\ wowner # t

\* C18 amended: a thread that calls the parent-closer does not hold the node
\* mutex; it does hold the descriptor lock, through the descriptor it flushes,
\* and File.Flush holds it exclusively.
C18_ParentCloserHoldsNoNodelk ==
    \A t \in Threads :
        CallsParentCloser(t) =>
            /\ nodelk # t
            /\ HasOpenFd(t)
            /\ IsWriteMode(fd[t].perms) => desclock.writer = "held" /\ wowner = t
            /\ fd[t].perms = OpenReadOnly => desclock.readers >= 1
            /\ call[t].op = "FileFlush" => desclock.writer = "held" /\ wowner = t

\* File.Flush calls the parent-closer while the other thread's Open waits for
\* the lock that File.Flush holds
C18_Witness ==
    \E t \in Threads, u \in Threads :
        /\ CallsParentCloser(t) /\ call[t].op = "FileFlush"
        /\ pc[u] = "rlock_wait"

\* C19: an Open that returns an error leaves no lock behind: every shared
\* hold on the descriptor lock belongs to an open read-only descriptor or to
\* an Open that is still running, and so does the exclusive hold.
C19_FailedOpenLeavesNoLock ==
    /\ LeakedReaders = 0
    /\ wowner # NoThread => HasOpenFd(wowner) \/ InOpen(wowner) \/ pc[wowner] = "ff_close"
    /\ (ev.op \in {"Open", "FileFlush"} /\ ev.err # "nil" /\ ~HasOpenFd(ev.t))
          => wowner # ev.t

\* C20: under fair scheduling every Open, File.Flush and Sync that has been
\* called returns, when the Modifier constructor never fails and every
\* descriptor is closed once before its thread calls again; a write-mode Open
\* or a Sync that waits is not kept out by read-only Opens that keep coming.
C20_EveryCallReturns ==
    \A t \in Threads : (pc[t] # "idle") ~> (pc[t] = "idle")

\* a write-mode Open waits for a read-only descriptor to be closed
C20_Witness ==
    \E t \in Threads, u \in Threads :
        /\ pc[t] = "lock_drain" /\ call[t].op = "Open"
        /\ u \in OpenReaders /\ desclock.writer = "pending"

====
